---- MODULE Spec2Model ----
(***************************************************************************)
(* Model of the Downloader (downloader.go, the acquisition orchestrator)  *)
(* of Personal Musician: the job state guarded by d.mu, the calls         *)
(* DownloadFromYouTube, CancelDownload and GetProgress, and the           *)
(* background goroutine downloadVideo, one instance per accepted start.   *)
(* Every action is one critical section of d.mu, or one step of a         *)
(* goroutine between two critical sections.                               *)
(*                                                                         *)
(* Model of the Player (player.go, the playback controller): the state    *)
(* guarded by p.mu, the speaker lock of the audio device, the calls made  *)
(* by the input loop, the end-of-stream callback run by the speaker       *)
(* goroutine and the auto-advance goroutines it spawns.  The Downloader   *)
(* and the Player share no state: Spec and FairSpec run the Downloader    *)
(* with an untouched Player, PlayerSpec runs the Player with an untouched *)
(* Downloader.                                                             *)
(***************************************************************************)
EXTENDS Naturals, Integers, Sequences, FiniteSets, TLC

\* Number of DownloadFromYouTube calls that are accepted in one behaviour.
MaxJobs == 2

Jobs == 1..MaxJobs

\* The zero value of d.cancelFunc and d.cmd.
Nil == 0

VARIABLES
    isDownloading,    \* d.isDownloading
    progress,         \* d.progress
    status,           \* d.status
    downloadedFiles,  \* d.downloadedFiles
    cancelFunc,       \* d.cancelFunc: Nil, or the job whose context it cancels
    cmd,              \* d.cmd: Nil, or the job whose exec.Cmd it points to
    pc,               \* pc[j]: where the goroutine downloadVideo of job j stands
    ctxDone,          \* ctxDone[j]: job j's own cancel function has been called
    proc,             \* proc[j]: the yt-dlp process of job j (cmd.Process)
    quit,             \* the parent context m.ctx has been cancelled
    op                \* the last step: "start_ok" or "start_rejected" for a
                      \* DownloadFromYouTube call that returned nil or the
                      \* already-in-progress error, "cancel" for a
                      \* CancelDownload call, "step" for any other step

\* Number of files the music directory can hold, i.e. the longest playlist.
MaxTracks == 3

\* Number of end-of-stream callbacks, i.e. of auto-advance goroutines, in one
\* behaviour.
MaxAdv == 1

\* The .mp3 files of the music directory, named by their rank in the
\* lexical order of filepath.Walk.
Files == 1..MaxTracks

\* Threads of control that use the Player: the input loop (Model.Update),
\* the auto-advance goroutines, and the speaker goroutine of the device.
UI == 0
Advs == 1..MaxAdv
Dev == MaxAdv + 1
Callers == {UI} \cup Advs

\* An unlocked sync.Mutex.
Unlocked == MaxAdv + 2

VARIABLES
    playlist,      \* p.playlist: the paths, in the order of the scan
    currentIndex,  \* p.currentIndex
    currentFile,   \* p.currentFile: Nil for "", or the file
    duration,      \* p.duration
    isPlaying,     \* p.isPlaying
    isPaused,      \* p.isPaused
    speakerInit,   \* p.speakerInit
    sampleRate,    \* p.sampleRate
    streamer,      \* p.streamer: Nil, or the file the open stream decodes
    ctrl,          \* p.ctrl: "nil", or the value of ctrl.Paused
    onSongChange,  \* p.onSongChange is not nil
    mu,            \* holder of p.mu, or Unlocked
    speakerMu,     \* holder of the speaker lock, or Unlocked
    mixer,         \* the speaker plays the sequence given to speaker.Play
    opened,        \* number of decoded streams opened and not closed
    tpc,           \* tpc[t]: where caller t stands in its call
    targ,          \* targ[t]: the index or path caller t carries
    devpc,         \* where the speaker goroutine stands
    run,           \* the run of NextSong or of PrevSong calls under way
    ret,           \* what the step just taken returned to the input loop
    cbHeld,        \* some song-changed callback ran with p.mu held
    adv,           \* adv[a]: what goroutine a saw when its stream ended
    outcome,       \* how the calls that play a track have returned since the
                   \* playlist was set: "none" has, all with nil ("ok"), or
                   \* one with an error or with the playlist set during
                   \* it ("void")
    last           \* what the input loop did last: Stop or Close that has
                   \* returned ("stop"), a PlayIndex under way ("picking") or
                   \* returned with the track started and still streaming
                   \* ("play"), or anything else ("other")

pfields == <<playlist, currentIndex, currentFile, duration, isPlaying, isPaused,
             speakerInit, sampleRate, streamer, ctrl, onSongChange>>
pvars == <<playlist, currentIndex, currentFile, duration, isPlaying, isPaused,
           speakerInit, sampleRate, streamer, ctrl, onSongChange,
           mu, speakerMu, mixer, opened, tpc, targ, devpc, run, ret, cbHeld, adv,
           outcome, last>>

\* No run of consecutive NextSong or PrevSong calls is under way.
NoRun == [kind |-> "none", start |-> -1, n |-> 0]

\* What the input loop did last, when it is none of the cases followed.
Other == [kind |-> "other", track |-> 0]

\* NewPlayer: the zero Player with currentIndex -1; no goroutine is running.
NewPlayer ==
    /\ playlist = <<>>
    /\ currentIndex = -1
    /\ currentFile = Nil
    /\ duration = 0
    /\ isPlaying = FALSE
    /\ isPaused = FALSE
    /\ speakerInit = FALSE
    /\ sampleRate = 0
    /\ streamer = Nil
    /\ ctrl = "nil"
    /\ onSongChange = FALSE
    /\ mu = Unlocked
    /\ speakerMu = Unlocked
    /\ mixer = FALSE
    /\ opened = 0
    /\ tpc = [t \in Callers |-> IF t = UI THEN "idle" ELSE "unborn"]
    /\ targ = [t \in Callers |-> 0]
    /\ devpc = "idle"
    /\ run = NoRun
    /\ ret = "none"
    /\ cbHeld = FALSE
    /\ adv = [a \in Advs |-> [cb |-> FALSE, calls |-> 0, quiet |-> FALSE, from |-> -1, len |-> 0]]
    /\ outcome = "none"
    /\ last = [kind |-> "other", track |-> 0]

VARIABLES
    spc,           \* SearchYouTube: "idle", "fetched" (body read) or "returned"
    html,          \* the response body handed to parseYouTubeResults
    searchRet,     \* what parseYouTubeResults returned
    npc,           \* the file naming of downloadVideo: "idle", "called", "named"
    request,       \* the videoID and title downloadVideo was started with
    safeTitle,     \* safeTitle of downloadVideo, line 105 to 108
    rpc,           \* the results view: "idle", "chosen" or "launched"
    library,       \* the names of the .mp3 files of the music directory
    wanted,        \* the title of the search result the user chose
    launchedFor    \* the title yt-dlp was started for

tvars == <<spc, html, searchRet, npc, request, safeTitle, rpc, library, wanted, launchedFor>>

\* A response body before any search; nothing in it matches.
NoDoc == [marker |-> "none", json |-> "bad", unit |-> <<>>, reps |-> 0,
          junk |-> "none", shapes |-> {}]

\* The return value of parseYouTubeResults before it has returned.
NoRet == [results |-> <<>>, err |-> "nil", tried |-> <<>>, seen |-> 0]

\* No search, no download and no choice has been made yet.
NoInput ==
    /\ spc = "idle"
    /\ html = NoDoc
    /\ searchRet = NoRet
    /\ npc = "idle"
    /\ request = [videoID |-> <<>>, title |-> <<>>]
    /\ safeTitle = <<>>
    /\ rpc = "idle"
    /\ library = {}
    /\ wanted = <<>>
    /\ launchedFor = <<>>


dfields == <<isDownloading, progress, status, downloadedFiles, cancelFunc, cmd>>
vars == <<isDownloading, progress, status, downloadedFiles, cancelFunc, cmd,
          pc, ctxDone, proc, quit, op>>

StIdle      == "Idle"
StStarting  == "Starting download..."
StRunning   == "Downloading with yt-dlp..."
StCancelled == "Download cancelled"
StFailed    == "Download failed"
StNotFound  == "Download completed but file not found"
StDone      == "Downloaded"

\* The path published by job j: musicDir/<safeTitle>.mp3 or the first glob match.
Mp3Path(j) == j

\* ctx.Err() != nil for the context of job j, a child of m.ctx.
CtxErr(j) == ctxDone[j] \/ quit

\* The goroutine of job j has been launched and has not returned.
Executing(j) == pc[j] \notin {"idle", "done"}

\* The goroutine of job j has been launched and has not yet made its final
\* status update (only the deferred cleanup, or nothing, is left after it).
Working(j) == pc[j] \notin {"idle", "defer", "done"}

Launched == {j \in Jobs : pc[j] # "idle"}

\* GetProgress: the snapshot read under d.mu.
GetProgress ==
    [Progress |-> progress, Status |-> status,
     IsDownloading |-> isDownloading, Files |-> downloadedFiles]

\* IsDownloading: the flag read under d.mu.
IsDownloading == isDownloading

Init ==
    /\ isDownloading = FALSE
    /\ progress = 0
    /\ status = StIdle
    /\ downloadedFiles = <<>>
    /\ cancelFunc = Nil
    /\ cmd = Nil
    /\ pc = [j \in Jobs |-> "idle"]
    /\ ctxDone = [j \in Jobs |-> FALSE]
    /\ proc = [j \in Jobs |-> "none"]
    /\ quit = FALSE
    /\ op = "step"
    /\ NewPlayer
    /\ NoInput

\* DownloadFromYouTube without the early return of lines 74-77.
DownloadFromYouTubeNoCheck ==
    /\ ~quit
    /\ Cardinality(Launched) < MaxJobs
    /\ LET j == Cardinality(Launched) + 1 IN
       /\ isDownloading' = TRUE
       /\ progress' = 0
       /\ status' = StStarting
       /\ downloadedFiles' = <<>>
       /\ cancelFunc' = j
       /\ pc' = [pc EXCEPT ![j] = "launched"]
    /\ op' = "start_ok"
    /\ UNCHANGED <<pvars, tvars>>
    /\ UNCHANGED <<cmd, ctxDone, proc, quit>>

\* DownloadFromYouTube: rejected while d.isDownloading, otherwise resets the
\* job state, stores the cancel function and launches downloadVideo.
DownloadFromYouTube ==
    /\ ~quit
    /\ IF isDownloading
       THEN /\ op' = "start_rejected"
            /\ UNCHANGED <<dfields, pc, ctxDone, proc, quit>>
            /\ UNCHANGED <<pvars, tvars>>
       ELSE /\ Cardinality(Launched) < MaxJobs
            /\ LET j == Cardinality(Launched) + 1 IN
               /\ isDownloading' = TRUE
               /\ progress' = 0
               /\ status' = StStarting
               /\ downloadedFiles' = <<>>
               /\ cancelFunc' = j
               /\ pc' = [pc EXCEPT ![j] = "launched"]
            /\ op' = "start_ok"
            /\ UNCHANGED <<pvars, tvars>>
            /\ UNCHANGED <<cmd, ctxDone, proc, quit>>

\* CancelDownload.  The read of d.cmd.Process races with the write made by
\* cmd.Start in the goroutine (no lock orders them), so a spawned process is
\* seen or not seen.
CancelDownload ==
    /\ \E seen \in BOOLEAN :
        /\ ctxDone' = IF cancelFunc # Nil
                      THEN [ctxDone EXCEPT ![cancelFunc] = TRUE]
                      ELSE ctxDone
        /\ cancelFunc' = Nil
        /\ proc' = IF cmd # Nil /\ proc[cmd] = "running" /\ seen
                   THEN [proc EXCEPT ![cmd] = "killed"]
                   ELSE proc
        /\ isDownloading' = FALSE
        /\ status' = StCancelled
    /\ op' = "cancel"
    /\ UNCHANGED <<pvars, tvars>>
    /\ UNCHANGED <<progress, downloadedFiles, cmd, pc, quit>>

\* handleKeyPress "ctrl+c"/"q": m.cancelFunc() cancels m.ctx, the parent of
\* every job context; the input loop ends, so no start follows.
Quit ==
    /\ ~quit
    /\ quit' = TRUE
    /\ op' = "step"
    /\ UNCHANGED <<pvars, tvars>>
    /\ UNCHANGED <<dfields, pc, ctxDone, proc>>

\* setStatus(status, downloading)
setStatus(s, downloading) ==
    /\ status' = s
    /\ isDownloading' = downloading

\* downloadVideo line 113: d.setStatus("Downloading with yt-dlp...", true)
JobSetStatus(j) ==
    /\ pc[j] = "launched"
    /\ setStatus(StRunning, TRUE)
    /\ pc' = [pc EXCEPT ![j] = "setcmd"]
    /\ op' = "step"
    /\ UNCHANGED <<pvars, tvars>>
    /\ UNCHANGED <<progress, downloadedFiles, cancelFunc, cmd, ctxDone, proc, quit>>

\* downloadVideo lines 127-129: d.cmd = cmd under the lock
JobSetCmd(j) ==
    /\ pc[j] = "setcmd"
    /\ cmd' = j
    /\ pc' = [pc EXCEPT ![j] = "run"]
    /\ op' = "step"
    /\ UNCHANGED <<pvars, tvars>>
    /\ UNCHANGED <<isDownloading, progress, status, downloadedFiles, cancelFunc,
                   ctxDone, proc, quit>>

\* cmd.CombinedOutput, first half (cmd.Start): a context that is already done
\* makes Start return its error without spawning; otherwise the process is
\* spawned, or the spawn itself fails.
JobRun(j) ==
    /\ pc[j] = "run"
    /\ \E spawned \in (IF CtxErr(j) THEN {FALSE} ELSE BOOLEAN) :
        IF spawned
        THEN /\ proc' = [proc EXCEPT ![j] = "running"]
             /\ pc' = [pc EXCEPT ![j] = "wait"]
        ELSE /\ proc' = proc
             /\ pc' = [pc EXCEPT ![j] = "check_err"]
    /\ op' = "step"
    /\ UNCHANGED <<pvars, tvars>>
    /\ UNCHANGED <<dfields, ctxDone, quit>>

\* cmd.CombinedOutput, second half (cmd.Wait): a killed process gives an
\* error; a running one exits by itself with or without an error, and
\* exec.CommandContext kills it once the context is done.
JobWait(j) ==
    /\ pc[j] = "wait"
    /\ \E err \in (IF proc[j] = "killed" THEN {TRUE} ELSE BOOLEAN) :
        pc' = [pc EXCEPT ![j] = IF err THEN "check_err" ELSE "check_ok"]
    /\ proc' = [proc EXCEPT ![j] = "exited"]
    /\ op' = "step"
    /\ UNCHANGED <<pvars, tvars>>
    /\ UNCHANGED <<dfields, ctxDone, quit>>

\* The branch of lines 134-161 with the error test placed before the
\* context test.
JobCheckErrFirst(j) ==
    /\ pc[j] \in {"check_ok", "check_err"}
    /\ \E found \in BOOLEAN :
        pc' = [pc EXCEPT ![j] =
                 IF pc[j] = "check_err" THEN "wfail"
                 ELSE IF CtxErr(j) THEN "wcancel"
                 ELSE IF found THEN "wsuccess" ELSE "wnotfound"]
    /\ op' = "step"
    /\ UNCHANGED <<pvars, tvars>>
    /\ UNCHANGED <<dfields, ctxDone, proc, quit>>

\* downloadVideo lines 134-161: the branch taken after CombinedOutput
\* returned: cancelled, failed, file not found, or success.
JobCheck(j) ==
    /\ pc[j] \in {"check_ok", "check_err"}
    /\ \E found \in BOOLEAN :
        pc' = [pc EXCEPT ![j] =
                 IF CtxErr(j) THEN "wcancel"
                 ELSE IF pc[j] = "check_err" THEN "wfail"
                 ELSE IF found THEN "wsuccess" ELSE "wnotfound"]
    /\ op' = "step"
    /\ UNCHANGED <<pvars, tvars>>
    /\ UNCHANGED <<dfields, ctxDone, proc, quit>>

\* line 135: d.setStatus("Download cancelled", false); return
JobCancelled(j) ==
    /\ pc[j] = "wcancel"
    /\ setStatus(StCancelled, FALSE)
    /\ pc' = [pc EXCEPT ![j] = "defer"]
    /\ op' = "step"
    /\ UNCHANGED <<pvars, tvars>>
    /\ UNCHANGED <<progress, downloadedFiles, cancelFunc, cmd, ctxDone, proc, quit>>

\* line 140: d.setStatus("Download failed: ...", false); return
JobFailed(j) ==
    /\ pc[j] = "wfail"
    /\ setStatus(StFailed, FALSE)
    /\ pc' = [pc EXCEPT ![j] = "defer"]
    /\ op' = "step"
    /\ UNCHANGED <<pvars, tvars>>
    /\ UNCHANGED <<progress, downloadedFiles, cancelFunc, cmd, ctxDone, proc, quit>>

\* line 158: d.setStatus("Download completed but file not found", false); return
JobNotFound(j) ==
    /\ pc[j] = "wnotfound"
    /\ setStatus(StNotFound, FALSE)
    /\ pc' = [pc EXCEPT ![j] = "defer"]
    /\ op' = "step"
    /\ UNCHANGED <<pvars, tvars>>
    /\ UNCHANGED <<progress, downloadedFiles, cancelFunc, cmd, ctxDone, proc, quit>>

\* The success update without the d.mu.Unlock() of line 169: the deferred
\* cleanup then blocks in d.mu.Lock() and downloadVideo never returns.
JobSuccessNoUnlock(j) ==
    /\ pc[j] = "wsuccess"
    /\ downloadedFiles' = <<Mp3Path(j)>>
    /\ progress' = 100
    /\ status' = StDone
    /\ isDownloading' = FALSE
    /\ pc' = [pc EXCEPT ![j] = "blocked"]
    /\ op' = "step"
    /\ UNCHANGED <<pvars, tvars>>
    /\ UNCHANGED <<cancelFunc, cmd, ctxDone, proc, quit>>

\* The success update without d.progress = 100.
JobSuccessKeepsProgress(j) ==
    /\ pc[j] = "wsuccess"
    /\ downloadedFiles' = <<Mp3Path(j)>>
    /\ progress' = progress
    /\ status' = StDone
    /\ isDownloading' = FALSE
    /\ pc' = [pc EXCEPT ![j] = "defer"]
    /\ op' = "step"
    /\ UNCHANGED <<pvars, tvars>>
    /\ UNCHANGED <<cancelFunc, cmd, ctxDone, proc, quit>>

\* lines 163-169: the success update
JobSuccess(j) ==
    /\ pc[j] = "wsuccess"
    /\ downloadedFiles' = <<Mp3Path(j)>>
    /\ progress' = 100
    /\ status' = StDone
    /\ isDownloading' = FALSE
    /\ pc' = [pc EXCEPT ![j] = "defer"]
    /\ op' = "step"
    /\ UNCHANGED <<pvars, tvars>>
    /\ UNCHANGED <<cancelFunc, cmd, ctxDone, proc, quit>>

\* lines 96-102: the deferred cleanup, run when downloadVideo returns
JobDefer(j) ==
    /\ pc[j] = "defer"
    /\ isDownloading' = FALSE
    /\ cancelFunc' = Nil
    /\ cmd' = Nil
    /\ pc' = [pc EXCEPT ![j] = "done"]
    /\ op' = "step"
    /\ UNCHANGED <<pvars, tvars>>
    /\ UNCHANGED <<progress, status, downloadedFiles, ctxDone, proc, quit>>

\* One step of the goroutine downloadVideo of job j.
downloadVideo(j) ==
    \/ JobSetStatus(j)
    \/ JobSetCmd(j)
    \/ JobRun(j)
    \/ JobWait(j)
    \/ JobCheck(j)
    \/ JobCancelled(j)
    \/ JobFailed(j)
    \/ JobNotFound(j)
    \/ JobSuccess(j)
    \/ JobDefer(j)

Next ==
    \/ DownloadFromYouTube
    \/ CancelDownload
    \/ Quit
    \/ \E j \in Jobs : downloadVideo(j)

Spec == Init /\ [][Next]_vars

\* Specification with the scheduling the claims on termination assume: every
\* launched goroutine keeps being scheduled, and the subprocess terminates
\* (JobWait, the return of cmd.CombinedOutput, is a step of the goroutine).
FairSpec == Spec /\ \A j \in Jobs : WF_vars(downloadVideo(j))

----
\* Claims on the Downloader.

\* C1: at most one downloadVideo background path is executing at any time.
C1_AtMostOnePath == Cardinality({j \in Jobs : Executing(j)}) <= 1

\* C2: a DownloadFromYouTube call made while isDownloading is true returns
\* the already-running error, leaves every field of the job state unchanged
\* and launches no background path.
C2_RejectedStart ==
    [][(isDownloading /\ op' \in {"start_ok", "start_rejected"})
         => (op' = "start_rejected" /\ UNCHANGED <<dfields, pc, ctxDone, proc>>)]_vars

C2_Witness ==
    /\ op = "start_rejected"
    /\ isDownloading
    /\ \E j \in Jobs : pc[j] = "wait" /\ cancelFunc = j /\ cmd = j

\* The snapshot that the success branch publishes: one result file,
\* progress 100, not running.
Published ==
    /\ Len(GetProgress.Files) = 1
    /\ GetProgress.Progress = 100
    /\ ~GetProgress.IsDownloading

\* C3: the success update leaves GetProgress reporting exactly one file,
\* progress 100 and isRunning false, and this stays so until the next
\* accepted start.
C3_SuccessStays ==
    [][((\E j \in Jobs : pc[j] = "wsuccess" /\ pc'[j] = "defer")
          \/ (Published /\ op' # "start_ok"))
         => Published']_vars

\* C4: CancelDownload with no active job changes neither the status text,
\* the running flag, the progress nor the result files.
C4_CancelIdleNoOp ==
    [][(op' = "cancel" /\ ~isDownloading /\ \A j \in Jobs : ~Executing(j))
         => UNCHANGED <<status, isDownloading, progress, downloadedFiles>>]_vars

\* C5 as stated: a job whose context is cancelled at any point while its
\* path is executing never records a failure and never publishes a success
\* after the cancellation.
C5_CancelledAnyTime ==
    [][\A j \in Jobs :
         (CtxErr(j) /\ pc[j] \in {"wsuccess", "wfail", "wnotfound"})
           => pc'[j] = pc[j]]_vars

\* C5 as amended: a job whose context is already cancelled when its path
\* tests ctx.Err() after the subprocess call has returned takes the
\* cancelled branch, whatever the subprocess returned; that branch records
\* "Download cancelled" with isDownloading false and then only runs the
\* deferred cleanup, so it records no failure and publishes no success.
C5_CancelledAtCheck ==
    [][\A j \in Jobs :
         /\ (pc[j] \in {"check_ok", "check_err"} /\ CtxErr(j) /\ pc'[j] # pc[j])
              => pc'[j] = "wcancel"
         /\ (pc[j] = "wcancel" /\ pc'[j] # pc[j])
              => (pc'[j] = "defer" /\ status' = StCancelled /\ ~isDownloading')
         /\ (pc[j] = "defer" /\ pc'[j] # pc[j])
              => (pc'[j] = "done" /\ UNCHANGED <<status, progress, downloadedFiles>>)]_vars

C5_Witness ==
    \E j \in Jobs : pc[j] = "wcancel" /\ proc[j] = "exited" /\ CtxErr(j)

\* The subprocess of job j is killed: by Process.Kill, or by
\* exec.CommandContext once the context of the job is done.
Terminated(j) == proc[j] = "killed" \/ CtxErr(j)

\* C6: whenever a background path is executing with its subprocess spawned,
\* a CancelDownload call cancels that job's context and kills that job's
\* subprocess.
C6_CancelReachesJob ==
    [][\A j \in Jobs :
         (op' = "cancel" /\ Executing(j) /\ proc[j] = "running")
           => (ctxDone'[j] /\ Terminated(j)')]_vars

\* C7: every accepted start is eventually followed by the return of its
\* background path with isDownloading false.
C7_EventuallyIdle ==
    \A j \in Jobs : (pc[j] = "launched") ~> (pc[j] = "done" /\ ~isDownloading)

C7_Witness ==
    \E j \in Jobs : pc[j] = "done" /\ ~isDownloading /\ proc[j] = "exited"

\* C8: in every state where a background path is still executing,
\* isDownloading is true.
C8_RunningWhileExecuting ==
    (\E j \in Jobs : Working(j)) => isDownloading

\* C9: a path that ends in a failure (subprocess error without
\* cancellation, or no output file) records a failure status and leaves the
\* job not running with progress 0 and no result files.
C9_FailureResets ==
    [][\A j \in Jobs :
         (pc[j] \in {"wfail", "wnotfound"} /\ ~CtxErr(j) /\ pc'[j] = "defer")
           => /\ status' \in {StFailed, StNotFound}
              /\ ~isDownloading'
              /\ progress' = 0
              /\ downloadedFiles' = <<>>]_vars

\* C10: no GetProgress snapshot shows progress 100 together with
\* isDownloading true or with an empty result list.
C10_NoTornSnapshot ==
    GetProgress.Progress = 100
      => (~GetProgress.IsDownloading /\ GetProgress.Files # <<>>)

----
\* The Player.

\* The results of ScanMusicFiles: the paths of any set of files, in the
\* lexical order of filepath.Walk.
Playlists ==
    {q \in UNION {[1..n -> Files] : n \in 0..MaxTracks} :
        \A i \in 1..Len(q) : \A k \in 1..Len(q) : i < k => q[i] < q[k]}

\* The native sample rate of a file (format.SampleRate after mp3.Decode).
Rate(f) == IF f % 2 = 1 THEN 44100 ELSE 48000

\* format.SampleRate.D(streamer.Len()): the duration of a file.
Dur(f) == 60 * f

\* NextSong without the wrap to the first track.
NextIndexNoWrap(c, n) == c + 1

\* NextSong line 210: (p.currentIndex + 1) % len(p.playlist)
NextIndex(c, n) == (c + 1) % n

\* PrevSong without the wrap to the last track.
PrevIndexNoWrap(c, n) == c - 1

\* PrevSong lines 225-228
PrevIndex(c, n) == IF c - 1 < 0 THEN n - 1 ELSE c - 1

\* stopInternal without streamer.Close().
stopInternalNoClose ==
    [streamer  |-> Nil,
     ctrl      |-> "nil",
     mixer     |-> IF streamer # Nil THEN FALSE ELSE mixer,
     opened    |-> opened,
     isPlaying |-> FALSE,
     isPaused  |-> FALSE]

\* stopInternal without p.isPaused = false.
stopInternalKeepsPaused ==
    [streamer  |-> Nil,
     ctrl      |-> "nil",
     mixer     |-> IF streamer # Nil THEN FALSE ELSE mixer,
     opened    |-> IF streamer # Nil THEN opened - 1 ELSE opened,
     isPlaying |-> FALSE,
     isPaused  |-> isPaused]

\* stopInternal without p.isPlaying = false.
stopInternalKeepsPlaying ==
    [streamer  |-> Nil,
     ctrl      |-> "nil",
     mixer     |-> IF streamer # Nil THEN FALSE ELSE mixer,
     opened    |-> IF streamer # Nil THEN opened - 1 ELSE opened,
     isPlaying |-> isPlaying,
     isPaused  |-> FALSE]

\* The fields of the Player after stopInternal.
stopInternal ==
    [streamer  |-> Nil,
     ctrl      |-> "nil",
     mixer     |-> IF streamer # Nil THEN FALSE ELSE mixer,
     opened    |-> IF streamer # Nil THEN opened - 1 ELSE opened,
     isPlaying |-> FALSE,
     isPaused  |-> FALSE]

\* speaker.Clear, called by stopInternal when a stream is open, and
\* speaker.Play take the speaker lock.
ClearCanRun == streamer # Nil => speakerMu = Unlocked

\* Caller t returns r: the input loop is idle again, an auto-advance
\* goroutine goes on to the song-changed callback (lines 143-146).
Return(t, r) ==
    /\ tpc' = [tpc EXCEPT ![t] = IF t = UI THEN "idle" ELSE "cb"]
    /\ ret' = IF t = UI THEN r ELSE "none"
    /\ targ' = [targ EXCEPT ![t] = 0]

\* Caller t goes on to position l of its call.
Goto(t, l) ==
    /\ tpc' = [tpc EXCEPT ![t] = l]
    /\ ret' = "none"

\* Caller t is at the point where it calls a method of the Player.
AtCall(t) == tpc[t] = IF t = UI THEN "idle" ELSE "start"

\* An auto-advance goroutine that has been spawned and has not finished.
Pending(a) == tpc[a] \notin {"unborn", "done"}

\* What an auto-advance goroutine remembers of an end of stream that
\* something else has interfered with.
Disturbed(r) == [r EXCEPT !.from = -1, !.len = 0, !.quiet = FALSE]

\* A call of the input loop interferes with every pending auto-advance.
AfterCall(t) ==
    IF t = UI
    THEN [a \in Advs |-> IF Pending(a) THEN Disturbed(adv[a]) ELSE adv[a]]
    ELSE adv

\* The run under way after the input loop calls NextSong ("next"), PrevSong
\* ("prev") or something else ("none"): a run starts at a valid index while
\* no auto-advance is pending, and goes on for as many calls as the playlist
\* has tracks.
RunAfter(kind) ==
    IF kind = "none" \/ \E a \in Advs : Pending(a)
    THEN NoRun
    ELSE IF run.kind = kind /\ run.n < Len(playlist)
         THEN [run EXCEPT !.n = @ + 1]
         ELSE IF currentIndex >= 0 /\ currentIndex < Len(playlist)
              THEN [kind |-> kind, start |-> currentIndex, n |-> 1]
              ELSE NoRun

\* SetPlaylist without the len(files) > 0 test.
SetPlaylistNoLenTest(files) ==
    /\ tpc[UI] = "idle"
    /\ mu = Unlocked
    /\ playlist' = files
    /\ currentIndex' = IF currentIndex < 0 THEN 0 ELSE currentIndex
    /\ run' = RunAfter("none")
    /\ ret' = "nil"
    /\ adv' = AfterCall(UI)
    /\ UNCHANGED <<currentFile, duration, isPlaying, isPaused, speakerInit, sampleRate,
                   streamer, ctrl, onSongChange, mu, speakerMu, mixer, opened,
                   tpc, targ, devpc, cbHeld>>
    /\ last' = Other
    /\ outcome' = IF \E a \in Advs : tpc[a] \in {"pi", "pf", "pf_in", "pf_play"}
                  THEN "void"
                  ELSE "none"
    /\ UNCHANGED <<vars, tvars>>

\* SetPlaylist that brings a currentIndex beyond the new list back to 0.
SetPlaylistRevalidates(files) ==
    /\ tpc[UI] = "idle"
    /\ mu = Unlocked
    /\ playlist' = files
    /\ currentIndex' = IF Len(files) > 0 /\ (currentIndex < 0 \/ currentIndex >= Len(files))
                       THEN 0 ELSE currentIndex
    /\ run' = RunAfter("none")
    /\ ret' = "nil"
    /\ adv' = AfterCall(UI)
    /\ UNCHANGED <<currentFile, duration, isPlaying, isPaused, speakerInit, sampleRate,
                   streamer, ctrl, onSongChange, mu, speakerMu, mixer, opened,
                   tpc, targ, devpc, cbHeld>>
    /\ last' = Other
    /\ outcome' = IF \E a \in Advs : tpc[a] \in {"pi", "pf", "pf_in", "pf_play"}
                  THEN "void"
                  ELSE "none"
    /\ UNCHANGED <<vars, tvars>>

\* SetPlaylist that forgets the index when the playlist is empty.
SetPlaylistForgets(files) ==
    /\ tpc[UI] = "idle"
    /\ mu = Unlocked
    /\ playlist' = files
    /\ currentIndex' = IF Len(files) = 0 THEN -1
                       ELSE IF currentIndex < 0 THEN 0 ELSE currentIndex
    /\ run' = RunAfter("none")
    /\ ret' = "nil"
    /\ adv' = AfterCall(UI)
    /\ UNCHANGED <<currentFile, duration, isPlaying, isPaused, speakerInit, sampleRate,
                   streamer, ctrl, onSongChange, mu, speakerMu, mixer, opened,
                   tpc, targ, devpc, cbHeld>>
    /\ last' = Other
    /\ outcome' = IF \E a \in Advs : tpc[a] \in {"pi", "pf", "pf_in", "pf_play"}
                  THEN "void"
                  ELSE "none"
    /\ UNCHANGED <<vars, tvars>>

\* SetPlaylist(files)
SetPlaylist(files) ==
    /\ tpc[UI] = "idle"
    /\ mu = Unlocked
    /\ playlist' = files
    /\ currentIndex' = IF Len(files) > 0 /\ currentIndex < 0 THEN 0 ELSE currentIndex
    /\ run' = RunAfter("none")
    /\ ret' = "nil"
    /\ adv' = AfterCall(UI)
    /\ UNCHANGED <<currentFile, duration, isPlaying, isPaused, speakerInit, sampleRate,
                   streamer, ctrl, onSongChange, mu, speakerMu, mixer, opened,
                   tpc, targ, devpc, cbHeld>>
    /\ last' = Other
    /\ outcome' = IF \E a \in Advs : tpc[a] \in {"pi", "pf", "pf_in", "pf_play"}
                  THEN "void"
                  ELSE "none"
    /\ UNCHANGED <<vars, tvars>>

\* SetOnSongChange(callback)
SetOnSongChange(callback) ==
    /\ tpc[UI] = "idle"
    /\ mu = Unlocked
    /\ onSongChange' = callback
    /\ run' = RunAfter("none")
    /\ ret' = "nil"
    /\ adv' = AfterCall(UI)
    /\ UNCHANGED <<playlist, currentIndex, currentFile, duration, isPlaying, isPaused,
                   speakerInit, sampleRate, streamer, ctrl, mu, speakerMu, mixer,
                   opened, tpc, targ, devpc, cbHeld>>
    /\ last' = Other
    /\ UNCHANGED outcome
    /\ UNCHANGED <<vars, tvars>>

\* PlayIndex that stores the index before it tests it.
PlayIndexBodyStoresFirst(t, index) ==
    /\ mu = Unlocked
    /\ currentIndex' = index
    /\ IF index < 0 \/ index >= Len(playlist)
       THEN Return(t, "range")
       ELSE /\ targ' = [targ EXCEPT ![t] = playlist[index + 1]]
            /\ Goto(t, "pf")
    /\ UNCHANGED <<playlist, currentFile, duration, isPlaying, isPaused, speakerInit,
                   sampleRate, streamer, ctrl, onSongChange, mu, speakerMu, mixer,
                   opened, devpc, cbHeld>>
    /\ outcome' = IF index < 0 \/ index >= Len(playlist) THEN "void" ELSE outcome
    /\ UNCHANGED <<vars, tvars>>

\* PlayIndex lines 155-162: the range check and the store of currentIndex,
\* in one critical section of p.mu.
PlayIndexBody(t, index) ==
    /\ mu = Unlocked
    /\ IF index < 0 \/ index >= Len(playlist)
       THEN /\ Return(t, "range")
            /\ UNCHANGED currentIndex
       ELSE /\ currentIndex' = index
            /\ targ' = [targ EXCEPT ![t] = playlist[index + 1]]
            /\ Goto(t, "pf")
    /\ UNCHANGED <<playlist, currentFile, duration, isPlaying, isPaused, speakerInit,
                   sampleRate, streamer, ctrl, onSongChange, mu, speakerMu, mixer,
                   opened, devpc, cbHeld>>
    /\ outcome' = IF index < 0 \/ index >= Len(playlist) THEN "void" ELSE outcome
    /\ UNCHANGED <<vars, tvars>>

\* PlayIndex(index) called by the input loop.
PlayIndex(index) ==
    /\ tpc[UI] = "idle"
    /\ run' = RunAfter("none")
    /\ adv' = AfterCall(UI)
    /\ last' = IF index < 0 \/ index >= Len(playlist)
              THEN Other
              ELSE [kind |-> "picking", track |-> 0]
    /\ PlayIndexBody(UI, index)

\* PlayIndex(nextIndex) called by NextSong or PrevSong (lines 213, 231).
PlayIndexStep(t) ==
    /\ tpc[t] = "pi"
    /\ UNCHANGED <<run, adv, last>>
    /\ PlayIndexBody(t, targ[t])

\* NextSong without the empty test of lines 205-208.
NextSongNoCheck(t) ==
    /\ AtCall(t)
    /\ mu = Unlocked
    /\ run' = IF t = UI THEN RunAfter("next") ELSE run
    /\ adv' = AfterCall(t)
    /\ targ' = [targ EXCEPT ![t] = IF Len(playlist) = 0 THEN 0
                                    ELSE NextIndex(currentIndex, Len(playlist))]
    /\ Goto(t, "pi")
    /\ UNCHANGED <<pfields, mu, speakerMu, mixer, opened, devpc, cbHeld>>
    /\ last' = IF t = UI THEN Other ELSE last
    /\ UNCHANGED outcome
    /\ UNCHANGED <<vars, tvars>>

\* NextSong lines 203-211: the empty test and the index, in one critical
\* section of p.mu.
NextSong(t) ==
    /\ AtCall(t)
    /\ mu = Unlocked
    /\ run' = IF t = UI THEN RunAfter("next") ELSE run
    /\ adv' = AfterCall(t)
    /\ IF Len(playlist) = 0
       THEN Return(t, "empty")
       ELSE /\ targ' = [targ EXCEPT ![t] = NextIndex(currentIndex, Len(playlist))]
            /\ Goto(t, "pi")
    /\ UNCHANGED <<pfields, mu, speakerMu, mixer, opened, devpc, cbHeld>>
    /\ last' = IF t = UI THEN Other ELSE last
    /\ outcome' = IF Len(playlist) = 0 THEN "void" ELSE outcome
    /\ UNCHANGED <<vars, tvars>>

\* PrevSong lines 218-229, called by the input loop only.
PrevSong ==
    /\ tpc[UI] = "idle"
    /\ mu = Unlocked
    /\ run' = RunAfter("prev")
    /\ adv' = AfterCall(UI)
    /\ IF Len(playlist) = 0
       THEN Return(UI, "empty")
       ELSE /\ targ' = [targ EXCEPT ![UI] = PrevIndex(currentIndex, Len(playlist))]
            /\ Goto(UI, "pi")
    /\ UNCHANGED <<pfields, mu, speakerMu, mixer, opened, devpc, cbHeld>>
    /\ last' = Other
    /\ outcome' = IF Len(playlist) = 0 THEN "void" ELSE outcome
    /\ UNCHANGED <<vars, tvars>>

\* PlayFile line 84: p.mu.Lock()
PlayFileLock(t) ==
    /\ tpc[t] = "pf"
    /\ mu = Unlocked
    /\ mu' = t
    /\ Goto(t, "pf_in")
    /\ UNCHANGED <<pfields, speakerMu, mixer, opened, targ, devpc, run, cbHeld, adv>>
    /\ UNCHANGED last
    /\ UNCHANGED outcome
    /\ UNCHANGED <<vars, tvars>>

\* The ways lines 91-111 end: os.Open fails, mp3.Decode fails, speaker.Init
\* fails (tried only while the speaker is not initialised), or none does.
Outcomes == {"openerr", "decodeerr", "ok"} \cup (IF speakerInit THEN {} ELSE {"initerr"})

\* PlayFile that initialises the speaker for every track.
PlayFileOpenReinit(t) ==
    /\ tpc[t] = "pf_in"
    /\ ClearCanRun
    /\ LET s == stopInternal
           f == targ[t]
       IN \E out \in Outcomes :
            IF out = "ok"
            THEN /\ speakerInit' = TRUE
                 /\ sampleRate' = Rate(f)
                 /\ ctrl' = "playing"
                 /\ streamer' = f
                 /\ currentFile' = f
                 /\ isPlaying' = TRUE
                 /\ isPaused' = FALSE
                 /\ duration' = Dur(f)
                 /\ opened' = s.opened + 1
                 /\ mixer' = s.mixer
                 /\ mu' = mu
                 /\ targ' = targ
                 /\ Goto(t, "pf_play")
            ELSE /\ streamer' = s.streamer
                 /\ ctrl' = s.ctrl
                 /\ isPlaying' = s.isPlaying
                 /\ isPaused' = s.isPaused
                 /\ mixer' = s.mixer
                 /\ opened' = IF out = "openerr" THEN s.opened ELSE (s.opened + 1) - 1
                 /\ mu' = Unlocked
                 /\ Return(t, "open")
                 /\ UNCHANGED <<speakerInit, sampleRate, currentFile, duration>>
    /\ UNCHANGED <<playlist, currentIndex, onSongChange, speakerMu, devpc,
                   run, cbHeld, adv>>
    /\ last' = IF t = UI /\ tpc'[t] = "idle" THEN Other ELSE last
    /\ outcome' = IF tpc'[t] # "pf_play" THEN "void" ELSE outcome
    /\ UNCHANGED <<vars, tvars>>

\* PlayFile lines 88-130 with p.mu held: stopInternal, then the open, the
\* decode, the one-time speaker.Init and the store of the new state.  On an
\* error the file or the streamer opened so far is closed and PlayFile
\* returns, releasing p.mu.
PlayFileOpen(t) ==
    /\ tpc[t] = "pf_in"
    /\ ClearCanRun
    /\ LET s == stopInternal
           f == targ[t]
       IN \E out \in Outcomes :
            IF out = "ok"
            THEN /\ speakerInit' = TRUE
                 /\ sampleRate' = IF speakerInit THEN sampleRate ELSE Rate(f)
                 /\ ctrl' = "playing"
                 /\ streamer' = f
                 /\ currentFile' = f
                 /\ isPlaying' = TRUE
                 /\ isPaused' = FALSE
                 /\ duration' = Dur(f)
                 /\ opened' = s.opened + 1
                 /\ mixer' = s.mixer
                 /\ mu' = mu
                 /\ targ' = targ
                 /\ Goto(t, "pf_play")
            ELSE /\ streamer' = s.streamer
                 /\ ctrl' = s.ctrl
                 /\ isPlaying' = s.isPlaying
                 /\ isPaused' = s.isPaused
                 /\ mixer' = s.mixer
                 /\ opened' = IF out = "openerr" THEN s.opened ELSE (s.opened + 1) - 1
                 /\ mu' = Unlocked
                 /\ Return(t, "open")
                 /\ UNCHANGED <<speakerInit, sampleRate, currentFile, duration>>
    /\ UNCHANGED <<playlist, currentIndex, onSongChange, speakerMu, devpc,
                   run, cbHeld, adv>>
    /\ last' = IF t = UI /\ tpc'[t] = "idle" THEN Other ELSE last
    /\ outcome' = IF tpc'[t] # "pf_play" THEN "void" ELSE outcome
    /\ UNCHANGED <<vars, tvars>>

\* PlayFile lines 133-150: speaker.Play hands the sequence (stream, then the
\* end-of-stream callback) to the speaker; PlayFile returns nil.
PlayFilePlay(t) ==
    /\ tpc[t] = "pf_play"
    /\ speakerMu = Unlocked
    /\ mixer' = TRUE
    /\ mu' = Unlocked
    /\ Return(t, "nil")
    /\ UNCHANGED <<pfields, speakerMu, opened, devpc, run, cbHeld, adv>>
    /\ last' = IF t = UI /\ last.kind = "picking"
              THEN [kind |-> "play", track |-> streamer]
              ELSE last
    /\ outcome' = IF outcome = "void" THEN "void" ELSE "ok"
    /\ UNCHANGED <<vars, tvars>>

\* TogglePause lines 169-174: under p.mu, return when nothing plays.
TogglePause ==
    /\ tpc[UI] = "idle"
    /\ mu = Unlocked
    /\ run' = RunAfter("none")
    /\ adv' = AfterCall(UI)
    /\ IF ctrl = "nil" \/ ~isPlaying
       THEN /\ Return(UI, "nil")
            /\ mu' = mu
       ELSE /\ Goto(UI, "tp_lock")
            /\ mu' = UI
            /\ targ' = targ
    /\ UNCHANGED <<pfields, speakerMu, mixer, opened, devpc, cbHeld>>
    /\ last' = Other
    /\ UNCHANGED outcome
    /\ UNCHANGED <<vars, tvars>>

\* TogglePause line 176: speaker.Lock() with p.mu held
TogglePauseLock ==
    /\ tpc[UI] = "tp_lock"
    /\ speakerMu = Unlocked
    /\ speakerMu' = UI
    /\ Goto(UI, "tp_in")
    /\ UNCHANGED <<pfields, mu, mixer, opened, targ, devpc, run, cbHeld, adv>>
    /\ UNCHANGED last
    /\ UNCHANGED outcome
    /\ UNCHANGED <<vars, tvars>>

\* TogglePause that sets ctrl.Paused instead of flipping it.
TogglePauseSet ==
    /\ tpc[UI] = "tp_in"
    /\ ctrl' = "paused"
    /\ isPaused' = (ctrl' = "paused")
    /\ speakerMu' = Unlocked
    /\ mu' = Unlocked
    /\ Return(UI, "nil")
    /\ UNCHANGED <<playlist, currentIndex, currentFile, duration, isPlaying,
                   speakerInit, sampleRate, streamer, onSongChange, mixer, opened,
                   devpc, run, cbHeld, adv>>
    /\ UNCHANGED last
    /\ UNCHANGED outcome
    /\ UNCHANGED <<vars, tvars>>

\* TogglePause lines 177-180: flip ctrl.Paused, copy it to isPaused, unlock
TogglePauseFlip ==
    /\ tpc[UI] = "tp_in"
    /\ ctrl' = IF ctrl = "paused" THEN "playing" ELSE "paused"
    /\ isPaused' = (ctrl' = "paused")
    /\ speakerMu' = Unlocked
    /\ mu' = Unlocked
    /\ Return(UI, "nil")
    /\ UNCHANGED <<playlist, currentIndex, currentFile, duration, isPlaying,
                   speakerInit, sampleRate, streamer, onSongChange, mixer, opened,
                   devpc, run, cbHeld, adv>>
    /\ UNCHANGED last
    /\ UNCHANGED outcome
    /\ UNCHANGED <<vars, tvars>>

\* Stop line 184 (Close line 284 is the same code): p.mu.Lock()
Stop ==
    /\ tpc[UI] = "idle"
    /\ mu = Unlocked
    /\ mu' = UI
    /\ run' = RunAfter("none")
    /\ adv' = AfterCall(UI)
    /\ Goto(UI, "st_in")
    /\ UNCHANGED <<pfields, speakerMu, mixer, opened, targ, devpc, cbHeld>>
    /\ last' = Other
    /\ UNCHANGED outcome
    /\ UNCHANGED <<vars, tvars>>

\* Stop line 186: stopInternal, then the deferred unlock
StopBody ==
    /\ tpc[UI] = "st_in"
    /\ ClearCanRun
    /\ LET s == stopInternal IN
        /\ streamer' = s.streamer
        /\ ctrl' = s.ctrl
        /\ mixer' = s.mixer
        /\ opened' = s.opened
        /\ isPlaying' = s.isPlaying
        /\ isPaused' = s.isPaused
    /\ mu' = Unlocked
    /\ Return(UI, "nil")
    /\ UNCHANGED <<playlist, currentIndex, currentFile, duration, speakerInit,
                   sampleRate, onSongChange, speakerMu, devpc, run, cbHeld, adv>>
    /\ last' = [kind |-> "stop", track |-> 0]
    /\ UNCHANGED outcome
    /\ UNCHANGED <<vars, tvars>>

\* GetState lines 236-249: the snapshot under p.mu; without a stream it
\* returns at once.
GetState ==
    /\ tpc[UI] = "idle"
    /\ mu = Unlocked
    /\ run' = run
    /\ IF streamer # Nil
       THEN /\ Goto(UI, "gs_lock")
            /\ mu' = UI
            /\ targ' = targ
       ELSE /\ Return(UI, "nil")
            /\ mu' = mu
    /\ UNCHANGED <<pfields, speakerMu, mixer, opened, devpc, cbHeld, adv>>
    /\ last' = Other
    /\ UNCHANGED outcome
    /\ UNCHANGED <<vars, tvars>>

\* GetState line 250: speaker.Lock() with p.mu held
GetStateLock ==
    /\ tpc[UI] = "gs_lock"
    /\ speakerMu = Unlocked
    /\ speakerMu' = UI
    /\ Goto(UI, "gs_in")
    /\ UNCHANGED <<pfields, mu, mixer, opened, targ, devpc, run, cbHeld, adv>>
    /\ UNCHANGED last
    /\ UNCHANGED outcome
    /\ UNCHANGED <<vars, tvars>>

\* GetState lines 251-256: read the position, unlock both, return
GetStateRead ==
    /\ tpc[UI] = "gs_in"
    /\ speakerMu' = Unlocked
    /\ mu' = Unlocked
    /\ Return(UI, "nil")
    /\ UNCHANGED <<pfields, mixer, opened, devpc, run, cbHeld, adv>>
    /\ UNCHANGED last
    /\ UNCHANGED outcome
    /\ UNCHANGED <<vars, tvars>>

\* The speaker goroutine, holding the speaker lock, drains the stream (which
\* a paused beep.Ctrl never lets happen) and reaches the beep.Callback of
\* line 133.
StreamEnd ==
    /\ devpc = "idle"
    /\ mixer
    /\ ctrl = "playing"
    /\ speakerMu = Unlocked
    /\ \E a \in Advs : tpc[a] = "unborn"
    /\ speakerMu' = Dev
    /\ mixer' = FALSE
    /\ devpc' = "cb_lock"
    /\ ret' = "none"
    /\ UNCHANGED <<pfields, mu, opened, tpc, targ, run, cbHeld, adv>>
    /\ last' = IF last.kind = "play" THEN Other ELSE last
    /\ UNCHANGED outcome
    /\ UNCHANGED <<vars, tvars>>

\* The callback, line 135: p.mu.Lock() with the speaker lock held
CallbackLock ==
    /\ devpc = "cb_lock"
    /\ mu = Unlocked
    /\ mu' = Dev
    /\ devpc' = "cb_in"
    /\ ret' = "none"
    /\ UNCHANGED <<pfields, speakerMu, mixer, opened, tpc, targ, run, cbHeld, adv>>
    /\ UNCHANGED last
    /\ UNCHANGED outcome
    /\ UNCHANGED <<vars, tvars>>

\* The callback calling p.onSongChange itself, before p.mu.Unlock().
CallbackBodyInvokes ==
    /\ devpc = "cb_in"
    /\ isPlaying' = FALSE
    /\ isPaused' = FALSE
    /\ LET a == CHOOSE x \in Advs : tpc[x] = "unborn" /\ \A y \in Advs : tpc[y] = "unborn" => x <= y
       IN /\ tpc' = [tpc EXCEPT ![a] = "done"]
          /\ adv' = [b \in Advs |->
                       IF b = a
                       THEN [cb |-> onSongChange, calls |-> IF onSongChange THEN 1 ELSE 0,
                             quiet |-> FALSE, from |-> -1, len |-> 0]
                       ELSE IF Pending(b) THEN Disturbed(adv[b]) ELSE adv[b]]
    /\ cbHeld' = (cbHeld \/ (onSongChange /\ mu = Dev))
    /\ mu' = Unlocked
    /\ speakerMu' = Unlocked
    /\ devpc' = "idle"
    /\ UNCHANGED <<playlist, currentIndex, currentFile, duration, speakerInit,
                   sampleRate, streamer, ctrl, onSongChange, mixer, opened, targ>>
    /\ run' = NoRun
    /\ ret' = "none"
    /\ UNCHANGED last
    /\ UNCHANGED outcome
    /\ UNCHANGED <<vars, tvars>>

\* The callback, lines 136-147: clear the flags, read p.onSongChange, unlock,
\* spawn the auto-advance goroutine; the speaker then releases its lock.
CallbackBody ==
    /\ devpc = "cb_in"
    /\ isPlaying' = FALSE
    /\ isPaused' = FALSE
    /\ LET a == CHOOSE x \in Advs : tpc[x] = "unborn" /\ \A y \in Advs : tpc[y] = "unborn" => x <= y
           alone == tpc[UI] = "idle" /\ \A b \in Advs : ~Pending(b)
       IN /\ tpc' = [tpc EXCEPT ![a] = "start"]
          /\ adv' = [b \in Advs |->
                       IF b = a
                       THEN [cb |-> onSongChange, calls |-> 0, quiet |-> alone,
                             from |-> IF alone THEN currentIndex ELSE -1,
                             len |-> IF alone THEN Len(playlist) ELSE 0]
                       ELSE IF Pending(b) THEN Disturbed(adv[b]) ELSE adv[b]]
    /\ mu' = Unlocked
    /\ speakerMu' = Unlocked
    /\ devpc' = "idle"
    /\ UNCHANGED <<playlist, currentIndex, currentFile, duration, speakerInit,
                   sampleRate, streamer, ctrl, onSongChange, mixer, opened, targ,
                   cbHeld>>
    /\ run' = NoRun
    /\ ret' = "none"
    /\ UNCHANGED last
    /\ UNCHANGED outcome
    /\ UNCHANGED <<vars, tvars>>

\* The auto-advance goroutine, lines 144-146, after NextSong has returned:
\* call the callback read at line 138 if there is one.
SongChanged(a) ==
    /\ tpc[a] = "cb"
    /\ tpc' = [tpc EXCEPT ![a] = "done"]
    /\ adv' = [adv EXCEPT ![a] = [@ EXCEPT !.from = -1, !.len = 0,
                                            !.calls = IF adv[a].cb THEN @ + 1 ELSE @]]
    /\ cbHeld' = (cbHeld \/ (adv[a].cb /\ mu = a))
    /\ ret' = "none"
    /\ UNCHANGED <<pfields, mu, speakerMu, mixer, opened, targ, devpc, run>>
    /\ UNCHANGED last
    /\ UNCHANGED outcome
    /\ UNCHANGED <<vars, tvars>>

\* One step of caller t inside NextSong, PlayIndex or PlayFile.
CallStep(t) ==
    \/ PlayIndexStep(t)
    \/ PlayFileLock(t)
    \/ PlayFileOpen(t)
    \/ PlayFilePlay(t)

\* One step of the auto-advance goroutine a: go func() of lines 142-147.
AutoAdvance(a) ==
    \/ NextSong(a)
    \/ CallStep(a)
    \/ SongChanged(a)

PlayerNext ==
    \/ \E files \in Playlists : SetPlaylist(files)
    \/ \E callback \in BOOLEAN : SetOnSongChange(callback)
    \/ \E index \in -1..MaxTracks : PlayIndex(index)
    \/ NextSong(UI)
    \/ PrevSong
    \/ CallStep(UI)
    \/ TogglePause
    \/ TogglePauseLock
    \/ TogglePauseFlip
    \/ Stop
    \/ StopBody
    \/ GetState
    \/ GetStateLock
    \/ GetStateRead
    \/ StreamEnd
    \/ CallbackLock
    \/ CallbackBody
    \/ \E a \in Advs : AutoAdvance(a)

PlayerSpec == Init /\ [][PlayerNext]_pvars


----
\* Claims on the Player.

\* C11: when the stream of the track at index i ends on a playlist of N >= 1
\* tracks and nothing else calls the Player before the auto-advance is over,
\* the auto-advance leaves currentIndex at (i + 1) mod N, the track of that
\* index is the one playing unless its open failed, and the callback that
\* was registered has been called exactly once.
C11_AutoAdvance ==
    [][\A a \in Advs :
          (tpc[a] = "cb" /\ tpc'[a] = "done" /\ adv[a].quiet /\ adv[a].len > 0)
          => /\ currentIndex' = (adv[a].from + 1) % adv[a].len
             /\ streamer' # Nil => /\ isPlaying'
                                   /\ streamer' = playlist'[currentIndex' + 1]
                                   /\ currentFile' = streamer'
             /\ adv'[a].calls = IF adv[a].cb THEN 1 ELSE 0]_pvars

\* An undisturbed auto-advance from the last track of three has wrapped to the
\* first, which plays, and has called the callback.
C11_Witness ==
    \E a \in Advs :
        /\ tpc[a] = "done"
        /\ adv[a].quiet
        /\ adv[a].calls = 1
        /\ Len(playlist) = 3
        /\ currentIndex = 0
        /\ isPlaying
        /\ tpc[UI] = "idle"
        /\ run = NoRun
        /\ ret = "none"

\* C12: no song-changed callback is called by a thread that holds p.mu.
C12_CallbackWithoutLock == ~cbHeld

\* A song-changed callback has been called, and p.mu was free.
C12_Witness ==
    /\ ~cbHeld
    /\ \E a \in Advs : adv[a].calls > 0

\* C13: no thread holds p.mu and the speaker lock at the same time.
C13_NoNestedLocks == ~(mu # Unlocked /\ speakerMu = mu)

\* C14: the number of decoded streams opened and not closed is 1 when
\* p.streamer is set and 0 when it is not.
C14_SingleStream == opened = IF streamer # Nil THEN 1 ELSE 0

\* A track had been played, and the open of another has just failed: no
\* stream is left open.
C14_Witness ==
    /\ ret = "open"
    /\ currentFile # Nil
    /\ streamer = Nil
    /\ opened = 0

\* C15: after N consecutive NextSong calls, or N consecutive PrevSong calls,
\* of the input loop on a playlist of N tracks, begun at a valid index with
\* no auto-advance pending and with no other command and no end of stream in
\* between, currentIndex is what it was before the first call.
C15_Closure ==
    (tpc[UI] = "idle" /\ run.kind # "none" /\ run.n = Len(playlist))
    => currentIndex = run.start

\* Three PrevSong calls on three tracks have returned.
C15_Witness ==
    /\ tpc[UI] = "idle"
    /\ run.kind = "prev"
    /\ run.n = 3
    /\ Len(playlist) = 3

\* C16: NextSong or PrevSong on an empty playlist returns "playlist is
\* empty" at once and changes no field of the Player, no stream and nothing
\* the speaker plays.
C16_EmptyPlaylist ==
    [][/\ ((NextSong(UI) \/ PrevSong) /\ Len(playlist) = 0)
          => /\ UNCHANGED <<pfields, mixer, opened>>
             /\ tpc'[UI] = "idle"
             /\ ret' = "empty"
       /\ \A a \in Advs :
            (NextSong(a) /\ Len(playlist) = 0)
            => /\ UNCHANGED <<pfields, mixer, opened>>
               /\ tpc'[a] = "cb"]_pvars

\* NextSong or PrevSong has just returned "playlist is empty" to the input
\* loop of a player that is not playing.
C16_Witness ==
    /\ ret = "empty"
    /\ Len(playlist) = 0
    /\ ~isPlaying
    /\ streamer = Nil

\* C17: isPaused implies isPlaying.
C17_PausedIsPlaying == isPaused => isPlaying

\* A paused track.
C17_Witness == isPaused /\ isPlaying /\ streamer # Nil /\ ctrl = "paused"

\* C18: every step that stores currentIndex (SetPlaylist storing 0, PlayIndex
\* storing its argument) stores a valid index of the playlist as it is then,
\* so that the only other value currentIndex has is the -1 of NewPlayer.
C18_ValidWhenSet ==
    [][(\/ currentIndex' # currentIndex
        \/ \E t \in Callers : tpc[t] # "pf" /\ tpc'[t] = "pf")
       => (0 <= currentIndex' /\ currentIndex' < Len(playlist'))]_pvars

\* PlayIndex has just stored the last index of a playlist of several tracks.
C18_Witness ==
    /\ tpc[UI] = "pf"
    /\ currentIndex > 0
    /\ currentIndex = Len(playlist) - 1

\* C19: on a non-empty playlist of N tracks NextSong of the input loop goes
\* on to index (currentIndex + 1) mod N and PrevSong to index
\* (currentIndex - 1 + N) mod N, and the PlayIndex they call does not return
\* "index out of range".
C19_WrapBothWays ==
    [][/\ (NextSong(UI) /\ Len(playlist) > 0)
          => targ'[UI] = (currentIndex + 1) % Len(playlist)
       /\ (PrevSong /\ Len(playlist) > 0)
          => targ'[UI] = (currentIndex - 1 + Len(playlist)) % Len(playlist)
       /\ PlayIndexStep(UI) => ret' # "range"]_pvars

\* C20: TogglePause changes nothing and returns when no stream is open or
\* the player is not playing; otherwise it flips ctrl.Paused and isPaused
\* together; no step of it changes the playlist, currentIndex, currentFile,
\* isPlaying or the stream.
C20_TogglePauseFrame ==
    [][/\ (TogglePause \/ TogglePauseLock \/ TogglePauseFlip)
          => UNCHANGED <<playlist, currentIndex, currentFile, duration, isPlaying,
                         streamer, mixer, opened>>
       /\ (TogglePause /\ (streamer = Nil \/ ~isPlaying))
          => (UNCHANGED pfields /\ tpc'[UI] = "idle")
       /\ (TogglePause /\ streamer # Nil /\ isPlaying)
          => (UNCHANGED pfields /\ tpc'[UI] = "tp_lock")
       /\ TogglePauseFlip
          => /\ isPaused' = ~isPaused
             /\ ctrl' = (IF ctrl = "playing" THEN "paused" ELSE "playing")
             /\ isPaused' = (ctrl' = "paused")]_pvars

\* TogglePause has just paused the track that plays.
C20_Witness ==
    /\ tpc[UI] = "idle"
    /\ ret = "nil"
    /\ mu = Unlocked
    /\ ctrl = "paused"
    /\ isPaused

\* C21: once speakerInit is true it stays true and sampleRate does not
\* change, whatever is opened afterwards; sampleRate is only ever set with
\* speakerInit, by the first PlayFile that gets that far.
C21_InitOnce ==
    [][/\ speakerInit => (speakerInit' /\ sampleRate' = sampleRate)
       /\ (~speakerInit /\ speakerInit')
          => \E t \in Callers : /\ tpc[t] = "pf_in"
                                /\ tpc'[t] = "pf_play"
                                /\ sampleRate' = Rate(targ[t])
       /\ ~speakerInit' => sampleRate' = 0]_pvars

\* The speaker runs at the rate of the first track played, and a track of
\* another native rate is open.
C21_Witness ==
    /\ speakerInit
    /\ streamer # Nil
    /\ mixer
    /\ sampleRate # Rate(streamer)

\* C22: SetPlaylist stores the new list, sets currentIndex to 0 only when
\* it was negative and the list is not empty, and changes nothing else:
\* isPlaying, isPaused, the stream, what the speaker plays, currentFile and
\* duration stay, and so does a currentIndex that is not negative.
C22_SetPlaylistFrame ==
    [][\A files \in Playlists :
          SetPlaylist(files)
          => /\ playlist' = files
             /\ currentIndex' = IF currentIndex < 0 /\ Len(files) > 0 THEN 0 ELSE currentIndex
             /\ UNCHANGED <<currentFile, duration, isPlaying, isPaused, speakerInit,
                            sampleRate, streamer, ctrl, onSongChange, mixer, opened>>]_pvars

\* A track plays on, and currentIndex is beyond the end of the playlist that
\* SetPlaylist has just stored.
C22_Witness ==
    /\ ret = "nil"
    /\ tpc[UI] = "idle"
    /\ isPlaying
    /\ mixer
    /\ streamer # Nil
    /\ currentIndex >= Len(playlist)

\* C23: when PlayFile, called by PlayIndex with a valid index, fails at the
\* open, the decode or speaker.Init, it returns the error (to the input
\* loop when that is the caller), with p.mu free, no stream open, nothing
\* played, and isPlaying and isPaused false.
C23_FailedOpen ==
    [][\A t \in Callers :
          (tpc[t] = "pf_in" /\ tpc'[t] # "pf_in" /\ tpc'[t] # "pf_play")
          => /\ t = UI => ret' = "open"
             /\ mu' = Unlocked
             /\ streamer' = Nil
             /\ ctrl' = "nil"
             /\ opened' = 0
             /\ ~mixer'
             /\ ~isPlaying'
             /\ ~isPaused']_pvars

\* PlayIndex(1) has just returned the error of a failed open.
C23_Witness ==
    /\ ret = "open"
    /\ tpc[UI] = "idle"
    /\ currentIndex = 1
    /\ Len(playlist) >= 2
    /\ streamer = Nil
    /\ ~isPlaying

\* C24: PlayIndex with an index outside 0..len(playlist)-1, called by the
\* input loop or by NextSong or PrevSong, returns "index out of range" and
\* changes no field of the Player, no stream and nothing the speaker plays.
C24_OutOfRange ==
    [][/\ \A index \in -1..MaxTracks :
            (PlayIndex(index) /\ (index < 0 \/ index >= Len(playlist)))
            => /\ ret' = "range"
               /\ tpc'[UI] = "idle"
               /\ UNCHANGED <<pfields, mixer, opened, mu, speakerMu>>
       /\ \A t \in Callers :
            (PlayIndexStep(t) /\ (targ[t] < 0 \/ targ[t] >= Len(playlist)))
            => /\ t = UI => ret' = "range"
               /\ tpc'[t] \in {"idle", "cb"}
               /\ UNCHANGED <<pfields, mixer, opened, mu, speakerMu>>]_pvars

\* PlayIndex has just returned "index out of range" while a track plays.
C24_Witness ==
    /\ ret = "range"
    /\ isPlaying
    /\ mixer
    /\ streamer # Nil

----
\* The search: parseYouTubeResults of search.go.

\* Longest run of items that a response body repeats, section after section.
MaxUnit == 2

\* Largest number of item sections of a response body.
MaxReps == 11

\* The numbers of item sections of the response bodies: none, one, two, or
\* enough of them to hold more than ten videos among other items.
Reps == {0, 1, 2, MaxReps}

\* What an element of a section's "contents" can be: not an object; an
\* object without a "videoRenderer" object; a videoRenderer whose "videoId"
\* is absent, is the empty string or is not a string; a videoRenderer with
\* an identifier.
ItemKinds == {"notmap", "other", "noid", "emptyid", "numid", "video"}

\* What an element of the section list can be besides an itemSectionRenderer
\* with a list of contents ("none": there is no such element).
JunkKinds == {"none", "notmap", "norenderer", "badrenderer", "badcontents"}

\* The nested fields of a videoRenderer that extractVideoInfo reads.
Fields == {"title", "channel", "duration"}

Units == UNION {[1..n -> ItemKinds] : n \in 0..MaxUnit}

\* The response bodies.  marker: the text matches `var ytInitialData = ({.*?});`
\* ("var"), only `ytInitialData\s*=\s*({.*?});` ("alt"), or neither
\* ("none").  json: the captured text does not parse ("bad"), parses but the
\* path of line 89 leads nowhere ("nopath") or to something that is no list
\* ("notlist"), or leads to the section list ("ok").  The section list is
\* reps item sections, each holding the items of unit and followed by a
\* junk element; shapes are the fields that have their expected shape in
\* every videoRenderer.
Docs ==
    {[marker |-> m, json |-> j, unit |-> <<>>, reps |-> 0, junk |-> "none", shapes |-> {}] :
        m \in {"var", "alt", "none"}, j \in {"bad", "nopath", "notlist"}}
    \cup
    {[marker |-> m, json |-> "ok", unit |-> u, reps |-> r, junk |-> k, shapes |-> sh] :
        m \in {"var", "alt", "none"}, u \in Units, r \in Reps,
        k \in JunkKinds, sh \in SUBSET Fields}

\* The i-th item section of body d; an item is known by its rank pos among
\* the items of the body, which is also its identifier, title, channel and
\* duration text where it has them.
ItemSection(d, i) ==
    [kind  |-> "items",
     items |-> [j \in 1..Len(d.unit) |->
                  [kind |-> d.unit[j], pos |-> (i - 1) * Len(d.unit) + j, shapes |-> d.shapes]]]

\* The section list that line 89 to 104 find in body d.
Sections(d) ==
    IF d.junk = "none"
    THEN [k \in 1..d.reps |-> ItemSection(d, k)]
    ELSE [k \in 1..(2 * d.reps) |->
            IF k % 2 = 1 THEN ItemSection(d, (k + 1) \div 2)
            ELSE [kind |-> d.junk, items |-> <<>>]]

\* parseYouTubeResults that gives up after the first pattern.
TryPatternsFirstOnly(d) ==
    [found |-> d.marker = "var", tried |-> <<1>>]

\* Lines 68-75: the first pattern, and the alternative one only when the
\* first does not match.  Every text the first matches the second matches.
TryPatterns(d) ==
    IF d.marker = "var"
    THEN [found |-> TRUE, tried |-> <<1>>]
    ELSE [found |-> d.marker = "alt", tried |-> <<1, 2>>]

\* extractVideoInfo that gives up a record whose title is not there.
extractVideoInfoStrict(renderer) ==
    IF "title" \in renderer.shapes /\ renderer.kind = "video"
    THEN [VideoID |-> renderer.pos, Title |-> renderer.pos,
          Channel |-> IF "channel" \in renderer.shapes THEN renderer.pos ELSE 0,
          Duration |-> IF "duration" \in renderer.shapes THEN renderer.pos ELSE 0]
    ELSE [VideoID |-> 0, Title |-> 0, Channel |-> 0, Duration |-> 0]

\* extractVideoInfo: each field is copied when it is there with its
\* expected shape and is left at the zero value (0 for "") otherwise.
extractVideoInfo(renderer) ==
    [VideoID  |-> IF renderer.kind \in {"emptyid", "video"}
                  THEN (IF renderer.kind = "video" THEN renderer.pos ELSE 0)
                  ELSE 0,
     Title    |-> IF "title" \in renderer.shapes THEN renderer.pos ELSE 0,
     Channel  |-> IF "channel" \in renderer.shapes THEN renderer.pos ELSE 0,
     Duration |-> IF "duration" \in renderer.shapes THEN renderer.pos ELSE 0]

\* parseYouTubeResults without a limit worth the name.
NoLimit == 100 * 10

\* Line 141: the number of results at which parseYouTubeResults returns.
Limit == 10

\* The loops of lines 106-146.  WalkSections goes over the sections that
\* are left, WalkItems over the items that are left of one section and then
\* on to the sections after it (rest); results is the slice so far, seen
\* the number of items the inner loop has come to.  Line 142 returns from
\* both loops.
RECURSIVE WalkSections(_, _, _)
RECURSIVE WalkItems(_, _, _, _)
WalkItems(items, rest, results, seen) ==
    IF items = <<>>
    THEN WalkSections(rest, results, seen)
    ELSE LET item == Head(items) IN
         IF item.kind \in {"notmap", "other"}
         THEN WalkItems(Tail(items), rest, results, seen + 1)
         ELSE LET result == extractVideoInfo(item) IN
              IF result.VideoID # 0
              THEN IF Len(results) + 1 >= Limit
                   THEN [results |-> Append(results, result), seen |-> seen + 1]
                   ELSE WalkItems(Tail(items), rest, Append(results, result), seen + 1)
              ELSE WalkItems(Tail(items), rest, results, seen + 1)

WalkSections(secs, results, seen) ==
    IF secs = <<>>
    THEN [results |-> results, seen |-> seen]
    ELSE IF Head(secs).kind # "items"
         THEN WalkSections(Tail(secs), results, seen)
         ELSE WalkItems(Head(secs).items, Tail(secs), results, seen)

\* parseYouTubeResults(html): the results, the error, the patterns tried in
\* order, and the number of items looked at.
parseYouTubeResults(d) ==
    LET m == TryPatterns(d) IN
    IF ~m.found
    THEN [results |-> <<>>, err |-> "could not find video data in response",
          tried |-> m.tried, seen |-> 0]
    ELSE IF d.json = "bad"
    THEN [results |-> <<>>, err |-> "failed to parse video data", tried |-> m.tried, seen |-> 0]
    ELSE IF d.json \in {"nopath", "notlist"}
    THEN [results |-> <<>>, err |-> "nil", tried |-> m.tried, seen |-> 0]
    ELSE LET w == WalkSections(Sections(d), <<>>, 0) IN
         [results |-> w.results, err |-> "nil", tried |-> m.tried, seen |-> w.seen]

\* SearchYouTube lines 47-57: the response body has been read.
SearchFetch(d) ==
    /\ spc = "idle"
    /\ spc' = "fetched"
    /\ html' = d
    /\ UNCHANGED <<searchRet, npc, request, safeTitle, rpc, library, wanted, launchedFor>>
    /\ UNCHANGED <<vars, pvars>>

\* SearchYouTube line 60: return parseYouTubeResults(string(body))
SearchParse ==
    /\ spc = "fetched"
    /\ spc' = "returned"
    /\ searchRet' = parseYouTubeResults(html)
    /\ UNCHANGED <<html, npc, request, safeTitle, rpc, library, wanted, launchedFor>>
    /\ UNCHANGED <<vars, pvars>>

\* The results have been shown; the next search can begin.
SearchAgain ==
    /\ spc = "returned"
    /\ spc' = "idle"
    /\ html' = NoDoc
    /\ searchRet' = NoRet
    /\ UNCHANGED <<npc, request, safeTitle, rpc, library, wanted, launchedFor>>
    /\ UNCHANGED <<vars, pvars>>

SearchNext ==
    \/ spc = "idle" /\ \E d \in Docs : SearchFetch(d)
    \/ SearchParse
    \/ SearchAgain

SearchSpec == Init /\ [][SearchNext]_tvars

----
\* The file name of a download: sanitizeFilename and lines 104-108 of
\* downloadVideo (downloader.go).

\* Longest unit of characters that a title repeats.
MaxTitleUnit == 2

\* Largest number of repetitions of its unit in a title: enough for titles
\* of more than 100 characters.
MaxTitleReps == 101

\* The characters of titles: a letter, two of the characters that are not
\* allowed in a file name, the space and the dot.  A string is the sequence
\* of its characters; all of these are one byte long, so len() counts them.
Alphabet == {"a", "/", "*", " ", "."}

\* Line 175: the character class [<>:"/\\|?*]
Illegal == {"<", ">", ":", "\"", "/", "\\", "|", "?", "*"}

\* The white space that strings.TrimSpace cuts, as far as it is ASCII.
Space == {" ", "\t", "\n", "\r"}

TitleUnits == UNION {[1..n -> Alphabet] : n \in 0..MaxTitleUnit}

\* The unit u written k times.
Repeat(u, k) == [i \in 1..(k * Len(u)) |-> u[((i - 1) % Len(u)) + 1]]

\* The titles of search results.
Titles == {Repeat(u, k) : u \in TitleUnits, k \in {1, 2, MaxTitleReps}}

\* Video identifiers.
VideoIDs == {<<"x">>, <<"y", "z">>}

\* Line 176: re.ReplaceAllString(name, "")
RemoveIllegal(name) == SelectSeq(name, LAMBDA c : c \notin Illegal)

\* strings.Trim and strings.TrimSpace: name without its leading and trailing
\* characters of cutset.
Trim(name, cutset) ==
    LET keep == {i \in 1..Len(name) : name[i] \notin cutset} IN
    IF keep = {} THEN <<>>
    ELSE SubSeq(name, CHOOSE i \in keep : \A k \in keep : i <= k,
                      CHOOSE i \in keep : \A k \in keep : k <= i)

\* Line 183: the longest name sanitizeFilename returns.
NameLimit == 100

\* sanitizeFilename without the cut of lines 183-185.
sanitizeFilenameUncut(name) ==
    Trim(Trim(RemoveIllegal(name), Space), {"."})

\* sanitizeFilename
sanitizeFilename(name) ==
    LET safe == Trim(Trim(RemoveIllegal(name), Space), {"."}) IN
    IF Len(safe) > NameLimit THEN SubSeq(safe, 1, NameLimit) ELSE safe

\* downloadVideo has been started with a video identifier and a title.
NameCall(videoID, title) ==
    /\ npc = "idle"
    /\ npc' = "called"
    /\ request' = [videoID |-> videoID, title |-> title]
    /\ UNCHANGED <<spc, html, searchRet, safeTitle, rpc, library, wanted, launchedFor>>
    /\ UNCHANGED <<vars, pvars>>

\* downloadVideo line 105: safeTitle := sanitizeFilename(title)
NameSanitize ==
    /\ npc = "called"
    /\ npc' = "sanitized"
    /\ safeTitle' = sanitizeFilename(request.title)
    /\ UNCHANGED <<spc, html, searchRet, request, rpc, library, wanted, launchedFor>>
    /\ UNCHANGED <<vars, pvars>>

\* downloadVideo without the fallback of lines 106-108.
NameFallbackNone ==
    /\ npc = "sanitized"
    /\ npc' = "named"
    /\ UNCHANGED <<spc, html, searchRet, request, safeTitle, rpc, library, wanted, launchedFor>>
    /\ UNCHANGED <<vars, pvars>>

\* downloadVideo lines 106-108: an empty safeTitle becomes the videoID
NameFallback ==
    /\ npc = "sanitized"
    /\ npc' = "named"
    /\ safeTitle' = IF safeTitle = <<>> THEN request.videoID ELSE safeTitle
    /\ UNCHANGED <<spc, html, searchRet, request, rpc, library, wanted, launchedFor>>
    /\ UNCHANGED <<vars, pvars>>

\* The download is over; the next one can begin.
NameAgain ==
    /\ npc = "named"
    /\ npc' = "idle"
    /\ request' = [videoID |-> <<>>, title |-> <<>>]
    /\ safeTitle' = <<>>
    /\ UNCHANGED <<spc, html, searchRet, rpc, library, wanted, launchedFor>>
    /\ UNCHANGED <<vars, pvars>>

NameNext ==
    \/ npc = "idle" /\ \E videoID \in VideoIDs : \E title \in Titles : NameCall(videoID, title)
    \/ NameSanitize
    \/ NameFallback
    \/ NameAgain

NameSpec == Init /\ [][NameNext]_tvars

----
\* The request for a download from the results view: the "enter" key of
\* handleResultsKeys (model.go), DownloadFromYouTube and downloadVideo
\* (downloader.go), and FileExists (filesystem.go).

\* Longest title of a requested result.
MaxWanted == 2

\* The characters of the titles of results: a letter in both cases, another
\* letter and the dot.
Letters == {"a", "A", "b", "."}

\* The titles of results.
Wanted == UNION {[1..n -> Letters] : n \in 1..MaxWanted}

\* MusicFile.Name of the files ScanMusicFiles can return: the file name
\* without its extension .mp3.
TrackNames == {<<"a">>, <<"A", "b">>, <<"b", "a">>}

\* strings.ToLower
ToLower(name) == [i \in 1..Len(name) |-> IF name[i] = "A" THEN "a" ELSE name[i]]

\* filepath.Ext: the suffix of name that starts at its last dot, empty when
\* there is no dot; no name here holds a path separator.
Ext(name) ==
    LET dots == {i \in 1..Len(name) : name[i] = "."} IN
    IF dots = {} THEN <<>>
    ELSE SubSeq(name, CHOOSE i \in dots : \A k \in dots : k <= i, Len(name))

\* strings.TrimSuffix
TrimSuffix(name, suffix) ==
    IF /\ Len(suffix) <= Len(name)
       /\ SubSeq(name, Len(name) - Len(suffix) + 1, Len(name)) = suffix
    THEN SubSeq(name, 1, Len(name) - Len(suffix))
    ELSE name

\* strings.Contains
Contains(name, substr) ==
    \E i \in 1..(Len(name) + 1) :
        /\ i + Len(substr) - 1 <= Len(name)
        /\ SubSeq(name, i, i + Len(substr) - 1) = substr

\* FileExists, with library for what ScanMusicFiles returns.
FileExists(name) ==
    LET searchName == ToLower(TrimSuffix(name, Ext(name))) IN
    \E file \in library :
        LET existingName == ToLower(file) IN
        existingName = searchName \/ Contains(existingName, searchName)

\* handleResultsKeys, case "enter", on a result of the given title, with the
\* given files in the music directory: DownloadFromYouTube starts the
\* goroutine of downloadVideo and returns nil.
RequestEnter(files, title) ==
    /\ rpc = "idle"
    /\ rpc' = "queued"
    /\ library' = files
    /\ wanted' = title
    /\ UNCHANGED <<spc, html, searchRet, npc, request, safeTitle, launchedFor>>
    /\ UNCHANGED <<vars, pvars>>

\* downloadVideo lines 104-138: yt-dlp is run for the video.
RequestRun ==
    /\ rpc = "queued"
    /\ rpc' = "launched"
    /\ launchedFor' = wanted
    /\ UNCHANGED <<spc, html, searchRet, npc, request, safeTitle, library, wanted>>
    /\ UNCHANGED <<vars, pvars>>

\* The download is over; the next request can be made.
RequestAgain ==
    /\ rpc = "launched"
    /\ rpc' = "idle"
    /\ library' = {}
    /\ wanted' = <<>>
    /\ launchedFor' = <<>>
    /\ UNCHANGED <<spc, html, searchRet, npc, request, safeTitle>>
    /\ UNCHANGED <<vars, pvars>>

RequestNext ==
    \/ rpc = "idle" /\ \E files \in SUBSET TrackNames : \E title \in Wanted : RequestEnter(files, title)
    \/ RequestRun
    \/ RequestAgain

RequestSpec == Init /\ [][RequestNext]_tvars

----
\* Claims on the search.

\* The kind of the item of rank p of body d.
KindAt(d, p) == d.unit[((p - 1) % Len(d.unit)) + 1]

\* The ranks of the items of body d, and of those with an identifier.
Ranks(d) == 1..(d.reps * Len(d.unit))
WithId(d) == {p \in Ranks(d) : KindAt(d, p) = "video"}

\* The identifiers of the results returned.
Returned == {searchRet.results[i].VideoID : i \in 1..Len(searchRet.results)}

\* C25: for a body that neither pattern matches, parseYouTubeResults
\* returns the error "could not find video data in response" and no
\* result, after trying the first pattern and then the alternative one; it
\* returns that error for no other body.
C25_NoMarker ==
    spc = "returned"
    => /\ html.marker = "none"
          => /\ searchRet.err = "could not find video data in response"
             /\ searchRet.results = <<>>
             /\ searchRet.tried = <<1, 2>>
       /\ searchRet.err = "could not find video data in response"
          => html.marker = "none"

\* A body with a section list full of videos but without the marker has
\* been refused.
C25_Witness ==
    /\ spc = "returned"
    /\ html.marker = "none"
    /\ html.json = "ok"
    /\ WithId(html) # {}
    /\ searchRet.err # "nil"

\* A body that has the marker, parses, holds the section list, and in which
\* every videoRenderer has an identifier.
WellFormed(d) ==
    /\ d.marker # "none"
    /\ d.json = "ok"
    /\ \A j \in 1..Len(d.unit) : d.unit[j] \in {"notmap", "other", "video"}

\* C26: for a well-formed body with N video items among other items,
\* parseYouTubeResults returns no error and min(N, 10) results, which are
\* the first min(N, 10) video items in the order of the body, each with its
\* identifier, and it looks at no item after the tenth of them.
C26_FirstTen ==
    (spc = "returned" /\ WellFormed(html))
    => LET N == Cardinality(WithId(html))
           first == {p \in WithId(html) : Cardinality({q \in WithId(html) : q <= p}) <= 10}
       IN /\ searchRet.err = "nil"
          /\ Len(searchRet.results) = IF N < 10 THEN N ELSE 10
          /\ Returned = first
          /\ \A i \in 1..Len(searchRet.results) :
                /\ searchRet.results[i].VideoID # 0
                /\ \A k \in 1..Len(searchRet.results) :
                      i < k => searchRet.results[i].VideoID < searchRet.results[k].VideoID
          /\ N >= 10 => \A p \in first : p <= searchRet.seen /\ searchRet.seen \in first
          /\ N < 10 => searchRet.seen = Cardinality(Ranks(html))

\* More than ten video items alternate with other items and junk sections; ten
\* results have been returned.
C26_Witness ==
    /\ spc = "returned"
    /\ WellFormed(html)
    /\ html.junk # "none"
    /\ \E j \in 1..Len(html.unit) : html.unit[j] # "video"
    /\ Cardinality(WithId(html)) > 10
    /\ Len(searchRet.results) = 10

\* What is returned for the videoRenderer of rank p: each field is there
\* when it has its shape and is empty otherwise.
ReturnedAsIs(p) ==
    \E i \in 1..Len(searchRet.results) :
        searchRet.results[i] =
            [VideoID  |-> p,
             Title    |-> IF "title" \in html.shapes THEN p ELSE 0,
             Channel  |-> IF "channel" \in html.shapes THEN p ELSE 0,
             Duration |-> IF "duration" \in html.shapes THEN p ELSE 0]

\* C30 as stated: of the videoRenderers of a body that parses, those whose
\* identifier is absent, empty or not a string are the ones that are not
\* returned, and the others are returned with the fields they have.
C30_DroppedIffNoId ==
    (spc = "returned" /\ html.marker # "none" /\ html.json = "ok")
    => /\ searchRet.err = "nil"
       /\ \A p \in Ranks(html) :
             KindAt(html, p) \notin {"notmap", "other"}
             => /\ p \notin Returned <=> KindAt(html, p) \in {"noid", "emptyid", "numid"}
                /\ KindAt(html, p) = "video" => ReturnedAsIs(p)

\* C30, amended: the same of the videoRenderers that parseYouTubeResults
\* looks at, which are those up to the one that gives the tenth result.
C30_DroppedIffNoIdAmongSeen ==
    (spc = "returned" /\ html.marker # "none" /\ html.json = "ok")
    => /\ searchRet.err = "nil"
       /\ searchRet.seen <= Cardinality(Ranks(html))
       /\ \A p \in 1..searchRet.seen :
             KindAt(html, p) \notin {"notmap", "other"}
             => /\ p \notin Returned <=> KindAt(html, p) \in {"noid", "emptyid", "numid"}
                /\ KindAt(html, p) = "video" => ReturnedAsIs(p)
       /\ \A p \in Returned : p \in 1..searchRet.seen

\* A video item without title, channel and duration has been returned, and
\* one without identifier has not.
C30_Witness ==
    /\ spc = "returned"
    /\ html.marker # "none"
    /\ html.shapes = {}
    /\ Len(searchRet.results) > 0
    /\ \E p \in 1..searchRet.seen : KindAt(html, p) = "noid"

----
\* Claims on the file name of a download.

\* C27: what sanitizeFilename returns holds none of the characters
\* < > : " / \ | ? * and is at most 100 long.
C27_SafeAndShort ==
    npc = "sanitized"
    => /\ \A i \in 1..Len(safeTitle) :
             safeTitle[i] \notin {"<", ">", ":", "\"", "/", "\\", "|", "?", "*"}
       /\ Len(safeTitle) <= 100

\* A title of more than 100 characters with characters that are not
\* allowed has been cut to 100.
C27_Witness ==
    /\ npc = "sanitized"
    /\ Len(request.title) > 100
    /\ \E i \in 1..Len(request.title) : request.title[i] = "/"
    /\ Len(safeTitle) = 100

\* A title that is not empty and made only of the characters of chars.
OnlyOf(title, chars) ==
    Len(title) > 0 /\ \A i \in 1..Len(title) : title[i] \in chars

\* C28: the name downloadVideo uses is the video identifier when the
\* sanitized title is empty, and the sanitized title otherwise; the
\* sanitized title is empty for a title made only of characters that are not
\* allowed in a name together with white space, or together with dots.
C28_FallbackToId ==
    npc = "named"
    => /\ safeTitle = IF sanitizeFilename(request.title) = <<>>
                      THEN request.videoID
                      ELSE sanitizeFilename(request.title)
       /\ safeTitle # <<>>
       /\ \/ OnlyOf(request.title, {"<", ">", ":", "\"", "/", "\\", "|", "?", "*", " "})
          \/ OnlyOf(request.title, {"<", ">", ":", "\"", "/", "\\", "|", "?", "*", "."})
          => safeTitle = request.videoID

\* A title of dots and slashes has been named after the identifier.
C28_Witness ==
    /\ npc = "named"
    /\ \E i \in 1..Len(request.title) : request.title[i] = "."
    /\ \E i \in 1..Len(request.title) : request.title[i] = "/"
    /\ sanitizeFilename(request.title) = <<>>
    /\ safeTitle = request.videoID

----
\* Claims on the request for a download.

\* C29: yt-dlp is not run for a title for which FileExists finds a file of a
\* similar name in the music directory.
C29_SkipsExisting ==
    rpc = "launched" => ~FileExists(launchedFor)

----
\* Further claims on the file name of a download.

\* C31: what sanitizeFilename returns neither begins nor ends with white
\* space and does not end with a dot.
C31_Trimmed ==
    npc = "sanitized" /\ safeTitle # <<>>
    => /\ safeTitle[1] \notin {" ", "\t", "\n", "\r"}
       /\ safeTitle[Len(safeTitle)] \notin {" ", "\t", "\n", "\r", "."}

----
\* Further claims on the Player.

\* C32: after Stop or Close has returned, and as long as the input loop
\* calls nothing else, the Player holds no open stream and is not playing.
C32_ClosedStaysClosed ==
    last.kind = "stop" => streamer = Nil /\ ~isPlaying

\* The caller that holds p.mu stands at a point where it takes the speaker
\* lock: speaker.Lock() in TogglePause and GetState, speaker.Clear() in
\* stopInternal when a stream is open, speaker.Play() in PlayFile.
WaitsForSpeaker(t) ==
    \/ tpc[t] \in {"tp_lock", "gs_lock", "pf_play"}
    \/ tpc[t] \in {"pf_in", "st_in"} /\ streamer # Nil

\* C33: no caller holds p.mu and waits for the speaker lock while the
\* speaker goroutine holds the speaker lock and waits for p.mu at line 135.
C33_NoDeadlock ==
    ~ /\ devpc = "cb_lock"
      /\ speakerMu = Dev
      /\ \E t \in Callers : mu = t /\ WaitsForSpeaker(t)

\* C34: after a PlayIndex(j) of the input loop has returned nil, and until
\* the stream of track j ends or the input loop calls something else, track
\* j is the track that plays.
C34_PickedStays ==
    (last.kind = "play" /\ tpc[UI] = "idle")
    => streamer = last.track /\ currentFile = last.track

\* No caller is inside NextSong, PrevSong, PlayIndex or PlayFile.
NoCallUnderWay ==
    /\ tpc[UI] = "idle"
    /\ \A a \in Advs : tpc[a] \notin {"pi", "pf", "pf_in", "pf_play"}

\* C35: when the calls of PlayIndex, NextSong and PrevSong made since the
\* playlist was set have all returned nil, currentFile is the path of
\* playlist[currentIndex].
C35_IndexAndFileAgree ==
    (outcome = "ok" /\ NoCallUnderWay)
    => /\ currentIndex >= 0
       /\ currentIndex < Len(playlist)
       /\ currentFile = playlist[currentIndex + 1]

\* C36: while currentIndex is -1 the playlist is empty, and once
\* currentIndex is 0 or more it never is -1 again, so that a Player whose
\* currentIndex is -1 never had a playlist that was not empty.
C36_UnsetOnlyBeforeFirstPlaylist ==
    /\ [](currentIndex = -1 => playlist = <<>>)
    /\ [][currentIndex >= 0 => currentIndex' >= 0]_pvars

\* The playlist has been emptied again and currentIndex is still 0 or more.
C36_Witness ==
    /\ playlist = <<>>
    /\ currentIndex >= 0

----
\* Further claims on the Downloader.

\* C37: progress is 0 or 100; it is 100 exactly when the list of result
\* files is not empty, and the list then holds one path; a start that is
\* accepted sets progress to 0 and empties the list.
C37_ProgressAndFiles ==
    /\ [](/\ progress \in {0, 100}
          /\ (progress = 100) = (downloadedFiles # <<>>)
          /\ Len(downloadedFiles) <= 1)
    /\ [][op' = "start_ok" => progress' = 0 /\ downloadedFiles' = <<>>]_vars

\* A second start has been accepted after a first download, and a download
\* has then succeeded.
C37_Witness ==
    /\ progress = 100
    /\ Len(downloadedFiles) = 1
    /\ \A j \in Jobs : pc[j] = "done"

====
